---- MODULE Spec2Model ----
(***************************************************************************)
(* The plugin-side ApplyResourceChange path of terraform-plugin-framework: *)
(* a wire request is decoded into typed containers, dispatched to the      *)
(* resource's Create, Update or Delete method, the provider mutates the    *)
(* response (State and Diagnostics), the dispatcher validates the response *)
(* and encodes it back onto the wire.                                      *)
(*                                                                         *)
(* The provider side (what a resource method may do with its request and   *)
(* response) and the expected wire responses are those of                  *)
(* TestServerApplyResourceChange (src/unnamed/part_001).                   *)
(***************************************************************************)
EXTENDS Integers, Sequences, FiniteSets

\* Bound on the number of calls a provider method makes on its request and
\* response before it returns.
MaxProviderCalls == 3

----------------------------------------------------------------------------
(* tftypes values of the test schema                                       *)

\* tftypes.NewValue(tftypes.String, nil)
NullValue == "tftypes.nil"

\* tftypes.UnknownValue
UnknownValue == "tftypes.UnknownValue"

\* testSchemaType: an object of two string attributes.
testSchemaType == {"test_computed", "test_required"}

\* tftypes.NewValue(testSchemaType, nil): the null object. A null object has
\* no attributes; the attribute slots of the record are filled with
\* NullValue and are never read.
NullObject == [IsNull |-> TRUE, test_computed |-> NullValue, test_required |-> NullValue]

\* tftypes.NewValue(testSchemaType, map[string]tftypes.Value{...})
ObjectValue(computed, required) == [IsNull |-> FALSE, test_computed |-> computed, test_required |-> required]

\* testSchema: test_computed is Computed, test_required is Required.
testSchema == [test_computed |-> "Computed", test_required |-> "Required"]

\* The resources the provider's GetResources returns.
GetResources == [test_resource |-> testSchema]

----------------------------------------------------------------------------
(* Wire values (tfprotov6.DynamicValue) and their conversion               *)

\* A nil *tfprotov6.DynamicValue: the field is absent from the request.
NilDynamicValue == [Present |-> FALSE, Value |-> NullObject]

\* tfprotov6.NewDynamicValue(typ, val) / testNewDynamicValue
NewDynamicValue(val) == [Present |-> TRUE, Value |-> val]

\* testEmptyDynamicValue: the null object on the wire.
testEmptyDynamicValue == NewDynamicValue(NullObject)

\* testProviderMetaValue: {test_provider_meta_attribute: "test-provider-meta-value"}
testProviderMetaValue == [IsNull |-> FALSE, test_provider_meta_attribute |-> "test-provider-meta-value"]

NullProviderMeta == [IsNull |-> TRUE, test_provider_meta_attribute |-> NullValue]

\* A decoding that reads an unknown attribute as null.
DecodeDynamicValueUnknownAsNull(dv) ==
    IF dv.Present
    THEN [dv.Value EXCEPT !.test_computed = IF @ = UnknownValue THEN NullValue ELSE @,
                          !.test_required = IF @ = UnknownValue THEN NullValue ELSE @]
    ELSE NullObject

\* Decoding a wire value into the Raw value of a typed container: an absent
\* wire value decodes to the null object of the schema.
DecodeDynamicValue(dv) == IF dv.Present THEN dv.Value ELSE NullObject

----------------------------------------------------------------------------
(* types.String and the typed structs the provider reads and writes        *)

\* The zero value of types.String: a known empty string.
ZeroString == [Unknown |-> FALSE, Null |-> FALSE, Value |-> ""]

\* tftypes string -> types.String, as Get populates a struct field.
ValueFromTerraform(v) ==
    IF v = UnknownValue THEN [Unknown |-> TRUE, Null |-> FALSE, Value |-> ""]
    ELSE IF v = NullValue THEN [Unknown |-> FALSE, Null |-> TRUE, Value |-> ""]
    ELSE [Unknown |-> FALSE, Null |-> FALSE, Value |-> v]

\* types.String -> tftypes string, as Set reads a struct field.
ToTerraformValue(s) ==
    IF s.Unknown THEN UnknownValue
    ELSE IF s.Null THEN NullValue
    ELSE s.Value

\* var data testSchemaData
ZeroSchemaData == [TestComputed |-> ZeroString, TestRequired |-> ZeroString]

\* var metadata testProviderMetaData
ZeroProviderMetaData == [TestProviderMetaAttribute |-> ZeroString]

\* A Get that leaves the field of an unknown attribute at its zero value.
GetUnknownAsZero(raw) ==
    [TestComputed |-> IF raw.test_computed = UnknownValue THEN ZeroString ELSE ValueFromTerraform(raw.test_computed),
     TestRequired |-> IF raw.test_required = UnknownValue THEN ZeroString ELSE ValueFromTerraform(raw.test_required)]

\* container.Get(ctx, &data) on a container holding a non-null object.
Get(raw) == [TestComputed |-> ValueFromTerraform(raw.test_computed), TestRequired |-> ValueFromTerraform(raw.test_required)]

\* A Get that leaves the target struct as it was declared.
GetProviderMetaZero(raw) == ZeroProviderMetaData

\* req.ProviderMeta.Get(ctx, &metadata)
GetProviderMeta(raw) == [TestProviderMetaAttribute |-> ValueFromTerraform(raw.test_provider_meta_attribute)]

\* A Set that writes the required attributes only.
SetRequiredOnly(d) == ObjectValue(NullValue, ToTerraformValue(d.TestRequired))

\* A Set that leaves a null computed attribute unknown instead of null.
SetNullComputedUnknown(d) ==
    ObjectValue(IF d.TestComputed.Null /\ ~d.TestComputed.Unknown THEN UnknownValue ELSE ToTerraformValue(d.TestComputed),
                ToTerraformValue(d.TestRequired))

\* resp.State.Set(ctx, &data): the container's value is replaced by the
\* object built from the struct.
Set(d) == ObjectValue(ToTerraformValue(d.TestComputed), ToTerraformValue(d.TestRequired))

\* A RemoveResource that nulls the attributes and keeps the object.
RemoveResourceNullAttributes == ObjectValue(NullValue, NullValue)

\* resp.State.RemoveResource(ctx): the container's value becomes the null
\* object.
RemoveResource == NullObject

----------------------------------------------------------------------------
(* Diagnostics                                                             *)

SeverityWarning == "WARNING"

SeverityError == "ERROR"

\* resp.Diagnostics.AddWarning("warning summary", "warning detail")
WarningDiagnostic == [Severity |-> SeverityWarning, Summary |-> "warning summary", Detail |-> "warning detail"]

\* resp.Diagnostics.AddError("error summary", "error detail")
ErrorDiagnostic == [Severity |-> SeverityError, Summary |-> "error summary", Detail |-> "error detail"]

\* The diagnostic synthesized when Create returns no state and no error.
MissingStateAfterCreate == [Severity |-> SeverityError, Summary |-> "Missing Resource State After Create", Detail |-> "The Terraform Provider unexpectedly returned no resource state after having no errors in the resource creation. This is always an issue in the Terraform Provider and should be reported to the provider developers.\n\nThe resource may have been successfully created, but Terraform is not tracking it. Applying the configuration again with no other action may result in duplicate resource errors."]

\* The diagnostic synthesized when Update returns no state and no error.
MissingStateAfterUpdate == [Severity |-> SeverityError, Summary |-> "Missing Resource State After Update", Detail |-> "The Terraform Provider unexpectedly returned no resource state after having no errors in the resource update. This is always an issue in the Terraform Provider and should be reported to the provider developers."]

\* A HasError that takes any diagnostic, warnings included, for a failure.
HasErrorAnyDiagnostic(diags) == diags # <<>>

\* diags.HasError()
HasError(diags) == \E i \in 1..Len(diags) : diags[i].Severity = SeverityError

\* diag severity -> tfprotov6.DiagnosticSeverity
DiagnosticSeverity(sev) == IF sev = SeverityError THEN "DiagnosticSeverityError" ELSE "DiagnosticSeverityWarning"

\* One diagnostic on the wire.
ProtoDiagnostic(d) == [Severity |-> DiagnosticSeverity(d.Severity), Summary |-> d.Summary, Detail |-> d.Detail]

\* Diagnostics on the wire: one entry per diagnostic, in the list's order.
Diagnostics(diags) == [i \in 1..Len(diags) |-> ProtoDiagnostic(diags[i])]

----------------------------------------------------------------------------
(* The wire requests of the test table                                     *)

\* test_required as the configuration gives it.
RequiredStrings == {"test-old-value", "test-new-value"}

\* test_computed in a planned state: not yet known, or planned.
PlannedComputed == {UnknownValue, "test-plannedstate-value"}

\* test_computed in a prior state: never set, or set by an earlier apply.
PriorComputed == {NullValue, "test-plannedstate-value"}

\* The ProviderMeta field of a request: absent, or testProviderMetaValue.
ProviderMetas == {[Present |-> FALSE, Value |-> NullProviderMeta], [Present |-> TRUE, Value |-> testProviderMetaValue]}

\* Requests with a null PriorState (create-* cases).
CreateRequests ==
    {[TypeName |-> "test_resource",
      Config |-> NewDynamicValue(ObjectValue(NullValue, r)),
      PlannedState |-> NewDynamicValue(ObjectValue(c, r)),
      PriorState |-> testEmptyDynamicValue,
      ProviderMeta |-> m] : r \in RequiredStrings, c \in PlannedComputed, m \in ProviderMetas}

\* Requests with a null PlannedState and no Config (delete-* cases).
DeleteRequests ==
    {[TypeName |-> "test_resource",
      Config |-> NilDynamicValue,
      PlannedState |-> testEmptyDynamicValue,
      PriorState |-> NewDynamicValue(ObjectValue(c, r)),
      ProviderMeta |-> m] : r \in RequiredStrings, c \in PriorComputed, m \in ProviderMetas}

\* Requests with PriorState and PlannedState both non-null (update-* cases).
UpdateRequests ==
    {[TypeName |-> "test_resource",
      Config |-> NewDynamicValue(ObjectValue(NullValue, r)),
      PlannedState |-> NewDynamicValue(ObjectValue(c, r)),
      PriorState |-> NewDynamicValue(ObjectValue(pc0, pr)),
      ProviderMeta |-> m] : r \in RequiredStrings, c \in PlannedComputed,
                            pc0 \in PriorComputed, pr \in RequiredStrings, m \in ProviderMetas}

Requests == CreateRequests \cup DeleteRequests \cup UpdateRequests

----------------------------------------------------------------------------
(* State                                                                   *)

VARIABLES
    request,    \* the tfprotov6.ApplyResourceChangeRequest being served
    pc,         \* the dispatcher's position for this request
    calls,      \* the lifecycle methods invoked so far, in order
    req,        \* the typed request handed to the provider
    resp,       \* the typed response the provider mutates
    data,       \* the provider method's local: var data testSchemaData
    metadata,   \* the provider method's local: var metadata testProviderMetaData
    trace,      \* the calls the provider method made, in order
    written,    \* the provider's last write to resp.State
    returned,   \* resp as the provider method left it when it returned
    response,   \* the tfprotov6.ApplyResourceChangeResponse
    parked      \* the requests served concurrently whose goroutine is not running

vars == <<request, pc, calls, req, resp, data, metadata, trace, written, returned, response, parked>>

\* The typed request before it is built.
EmptyRequest == [Config |-> NullObject, Plan |-> NullObject, State |-> NullObject, ProviderMeta |-> NullProviderMeta]

\* The typed response before a lifecycle method is chosen.
EmptyResponse == [State |-> NullObject, Diagnostics |-> <<>>]

\* The provider has not written resp.State: Data is the struct handed to
\* Set, Value the object the container then holds.
NoWrite == [Op |-> "none", Data |-> ZeroSchemaData, Value |-> NullObject]

\* No wire response has been produced yet.
NoResponse == [Sent |-> FALSE, NewState |-> NilDynamicValue, Diagnostics |-> <<>>]

Init ==
    /\ request \in Requests
    /\ pc = "Initialized"
    /\ calls = <<>>
    /\ req = EmptyRequest
    /\ resp = EmptyResponse
    /\ data = ZeroSchemaData
    /\ metadata = ZeroProviderMetaData
    /\ trace = <<>>
    /\ written = NoWrite
    /\ returned = EmptyResponse
    /\ response = NoResponse
    /\ parked = <<>>

\* The lifecycle method serving the request, "none" before the dispatch.
Method == IF calls = <<>> THEN "none" ELSE calls[Len(calls)]

----------------------------------------------------------------------------
(* The dispatcher up to the provider call                                  *)

\* The resource type is looked up by name and its schema resolved.
ResolveSchema ==
    /\ pc = "Initialized"
    /\ request.TypeName \in DOMAIN GetResources
    /\ pc' = "SchemaResolved"
    /\ UNCHANGED <<parked, request, calls, req, resp, data, metadata, trace, written, returned, response>>

\* The wire values are decoded into the typed containers of the request.
BuildRequest ==
    /\ pc = "SchemaResolved"
    /\ req' = [Config |-> DecodeDynamicValue(request.Config),
               Plan |-> DecodeDynamicValue(request.PlannedState),
               State |-> DecodeDynamicValue(request.PriorState),
               ProviderMeta |-> IF request.ProviderMeta.Present THEN request.ProviderMeta.Value ELSE NullProviderMeta]
    /\ pc' = "RequestBuilt"
    /\ UNCHANGED <<parked, request, calls, resp, data, metadata, trace, written, returned, response>>

\* A dispatch that never chooses Delete.
LifecycleMethodNeverDelete(r) == IF r.State.IsNull THEN "Create" ELSE "Update"

\* The lifecycle method a request is dispatched to, by the nullity of its
\* prior and planned state.
LifecycleMethod(r) ==
    IF r.State.IsNull THEN "Create"
    ELSE IF r.Plan.IsNull THEN "Delete"
    ELSE "Update"

\* resp.State as Create receives it: the empty (null object) value.
CreateInitialState(r) == NullObject

\* An Update whose response starts from the planned state.
UpdateInitialStateFromPlan(r) == r.Plan

\* An Update whose response starts empty, as Create's does.
UpdateInitialStateEmpty(r) == NullObject

\* resp.State as Update receives it: the prior State.
UpdateInitialState(r) == r.State

\* A Delete whose response starts empty.
DeleteInitialStateEmpty(r) == NullObject

\* resp.State as Delete receives it: the prior State.
DeleteInitialState(r) == r.State

\* A dispatcher that may enter the provider's method a second time while
\* the first invocation is running.
InvokeAgain(m, state) ==
    /\ pc \in {"RequestBuilt", "ProviderInvoked"}
    /\ Len(calls) < 2
    /\ LifecycleMethod(req) = m
    /\ calls' = Append(calls, m)
    /\ resp' = [State |-> state, Diagnostics |-> <<>>]
    /\ pc' = "ProviderInvoked"
    /\ UNCHANGED <<parked, request, req, data, metadata, trace, written, returned, response>>

\* The provider's method is entered with a fresh response.
Invoke(m, state) ==
    /\ pc = "RequestBuilt"
    /\ LifecycleMethod(req) = m
    /\ calls' = Append(calls, m)
    /\ resp' = [State |-> state, Diagnostics |-> <<>>]
    /\ pc' = "ProviderInvoked"
    /\ UNCHANGED <<parked, request, req, data, metadata, trace, written, returned, response>>

CreateResource == Invoke("Create", CreateInitialState(req))

UpdateResource == Invoke("Update", UpdateInitialState(req))

DeleteResource == Invoke("Delete", DeleteInitialState(req))

----------------------------------------------------------------------------
(* The provider's lifecycle method: any sequence of at most                *)
(* MaxProviderCalls calls on its request and response, then return         *)

InProvider == pc = "ProviderInvoked" /\ Len(trace) < MaxProviderCalls

\* A Config.Get that also leaves what it read in the response State.
ConfigGetWritesState ==
    /\ InProvider
    /\ Method \in {"Create", "Update"}
    /\ ~req.Config.IsNull
    /\ data' = Get(req.Config)
    /\ resp' = [resp EXCEPT !.State = req.Config]
    /\ trace' = Append(trace, "Config.Get")
    /\ UNCHANGED <<parked, request, pc, calls, req, metadata, written, returned, response>>

\* resp.Diagnostics.Append(req.Config.Get(ctx, &data)...)
ConfigGet ==
    /\ InProvider
    /\ Method \in {"Create", "Update"}
    /\ ~req.Config.IsNull
    /\ data' = Get(req.Config)
    /\ trace' = Append(trace, "Config.Get")
    /\ UNCHANGED <<parked, request, pc, calls, req, resp, metadata, written, returned, response>>

\* resp.Diagnostics.Append(req.Plan.Get(ctx, &data)...)
PlanGet ==
    /\ InProvider
    /\ Method \in {"Create", "Update"}
    /\ ~req.Plan.IsNull
    /\ data' = Get(req.Plan)
    /\ trace' = Append(trace, "Plan.Get")
    /\ UNCHANGED <<parked, request, pc, calls, req, resp, metadata, written, returned, response>>

\* resp.Diagnostics.Append(req.State.Get(ctx, &data)...)
StateGet ==
    /\ InProvider
    /\ Method \in {"Update", "Delete", "Read"}
    /\ ~req.State.IsNull
    /\ data' = Get(req.State)
    /\ trace' = Append(trace, "State.Get")
    /\ UNCHANGED <<parked, request, pc, calls, req, resp, metadata, written, returned, response>>

\* resp.Diagnostics.Append(req.ProviderMeta.Get(ctx, &metadata)...)
ProviderMetaGet ==
    /\ InProvider
    /\ ~req.ProviderMeta.IsNull
    /\ metadata' = GetProviderMeta(req.ProviderMeta)
    /\ trace' = Append(trace, "ProviderMeta.Get")
    /\ UNCHANGED <<parked, request, pc, calls, req, resp, data, written, returned, response>>

\* resp.Diagnostics.Append(resp.State.Set(ctx, &data)...)
StateSet ==
    /\ InProvider
    /\ resp' = [resp EXCEPT !.State = Set(data)]
    /\ written' = [Op |-> "Set", Data |-> data, Value |-> Set(data)]
    /\ trace' = Append(trace, "State.Set")
    /\ UNCHANGED <<parked, request, pc, calls, req, data, metadata, returned, response>>

\* resp.State.RemoveResource(ctx)
StateRemoveResource ==
    /\ InProvider
    /\ resp' = [resp EXCEPT !.State = RemoveResource]
    /\ written' = [Op |-> "RemoveResource", Data |-> ZeroSchemaData, Value |-> RemoveResource]
    /\ trace' = Append(trace, "State.RemoveResource")
    /\ UNCHANGED <<parked, request, pc, calls, req, data, metadata, returned, response>>

\* An AddWarning that starts the list over.
AddWarningReplaces(diags) == <<WarningDiagnostic>>

\* diags.AddWarning(summary, detail)
AddWarning(diags) == Append(diags, WarningDiagnostic)

\* An AddError that puts the error in front of the list.
AddErrorFirst(diags) == <<ErrorDiagnostic>> \o diags

\* diags.AddError(summary, detail)
AddError(diags) == Append(diags, ErrorDiagnostic)

\* resp.Diagnostics.AddWarning("warning summary", "warning detail")
DiagnosticsAddWarning ==
    /\ InProvider
    /\ resp' = [resp EXCEPT !.Diagnostics = AddWarning(@)]
    /\ trace' = Append(trace, "Diagnostics.AddWarning")
    /\ UNCHANGED <<parked, request, pc, calls, req, data, metadata, written, returned, response>>

\* resp.Diagnostics.AddError("error summary", "error detail")
DiagnosticsAddError ==
    /\ InProvider
    /\ resp' = [resp EXCEPT !.Diagnostics = AddError(@)]
    /\ trace' = Append(trace, "Diagnostics.AddError")
    /\ UNCHANGED <<parked, request, pc, calls, req, data, metadata, written, returned, response>>

----------------------------------------------------------------------------
(* The dispatcher after the provider call                                  *)

\* A Create whose response is passed on unchecked.
CreateResourceResponseUnchecked(rsp) == rsp

\* A Create that reports the missing state also when the provider reported
\* an error of its own.
CreateResourceResponseAlwaysChecked(rsp) ==
    IF rsp.State.IsNull
    THEN [rsp EXCEPT !.Diagnostics = Append(@, MissingStateAfterCreate)]
    ELSE rsp

\* A Create that drops the state when the provider reported an error.
CreateResourceResponseClearedOnError(rsp) ==
    IF HasError(rsp.Diagnostics)
    THEN [rsp EXCEPT !.State = RemoveResource]
    ELSE IF rsp.State.IsNull
    THEN [rsp EXCEPT !.Diagnostics = Append(@, MissingStateAfterCreate)]
    ELSE rsp

\* After Create: no error and no state is itself an error.
CreateResourceResponse(rsp) ==
    IF ~HasError(rsp.Diagnostics) /\ rsp.State.IsNull
    THEN [rsp EXCEPT !.Diagnostics = Append(@, MissingStateAfterCreate)]
    ELSE rsp

\* An Update whose response is passed on unchecked.
UpdateResourceResponseUnchecked(rsp) == rsp

\* An Update that drops the state when the provider reported an error.
UpdateResourceResponseClearedOnError(rsp) ==
    IF HasError(rsp.Diagnostics)
    THEN [rsp EXCEPT !.State = RemoveResource]
    ELSE IF rsp.State.IsNull
    THEN [rsp EXCEPT !.Diagnostics = Append(@, MissingStateAfterUpdate)]
    ELSE rsp

\* An Update that reports the missing state as a warning.
UpdateResourceResponseWarnsMissingState(rsp) ==
    IF ~HasError(rsp.Diagnostics) /\ rsp.State.IsNull
    THEN [rsp EXCEPT !.Diagnostics = Append(@, [MissingStateAfterUpdate EXCEPT !.Severity = SeverityWarning])]
    ELSE rsp

\* After Update: no error and no state is itself an error.
UpdateResourceResponse(rsp) ==
    IF ~HasError(rsp.Diagnostics) /\ rsp.State.IsNull
    THEN [rsp EXCEPT !.Diagnostics = Append(@, MissingStateAfterUpdate)]
    ELSE rsp

\* A Delete that never removes the resource itself.
DeleteResourceResponseKeepState(rsp) == rsp

\* A Delete that removes the resource only when the provider left the state
\* as it received it.
DeleteResourceResponseHonorSet(rsp) ==
    IF ~HasError(rsp.Diagnostics) /\ rsp.State = req.State
    THEN [rsp EXCEPT !.State = RemoveResource]
    ELSE rsp

\* After Delete: without errors the resource is removed from the state
\* automatically.
DeleteResourceResponse(rsp) ==
    IF ~HasError(rsp.Diagnostics)
    THEN [rsp EXCEPT !.State = RemoveResource]
    ELSE rsp

\* A Read that treats a missing state as Create and Update do.
ReadResourceResponseChecked(rsp) ==
    IF ~HasError(rsp.Diagnostics) /\ rsp.State.IsNull
    THEN [rsp EXCEPT !.Diagnostics = Append(@, [Severity |-> SeverityError, Summary |-> "Missing Resource State After Read", Detail |-> ""])]
    ELSE rsp

\* After Read: the response is passed on as the provider left it; a null
\* State says the resource is gone.
ReadResourceResponse(rsp) == rsp

\* A dispatcher that unwinds to the built request when the provider's
\* method returns with an error.
ValidateResponseUnwinds ==
    /\ pc = "ProviderInvoked"
    /\ returned' = resp
    /\ resp' = resp
    /\ pc' = IF HasError(resp.Diagnostics) THEN "RequestBuilt" ELSE "ResponseValidated"
    /\ UNCHANGED <<parked, request, calls, req, data, metadata, trace, written, response>>

\* A dispatcher that gives up on a method that returns with an error.
ValidateResponseStopsOnError ==
    /\ pc = "ProviderInvoked"
    /\ ~HasError(resp.Diagnostics)
    /\ returned' = resp
    /\ resp' = resp
    /\ pc' = "ResponseValidated"
    /\ UNCHANGED <<parked, request, calls, req, data, metadata, trace, written, response>>

\* The provider's method returns and the dispatcher validates the response.
ValidateResponse ==
    /\ pc = "ProviderInvoked"
    /\ returned' = resp
    /\ resp' = CASE Method = "Create" -> CreateResourceResponse(resp)
                 [] Method = "Update" -> UpdateResourceResponse(resp)
                 [] Method = "Delete" -> DeleteResourceResponse(resp)
                 [] OTHER -> ReadResourceResponse(resp)
    /\ pc' = "ResponseValidated"
    /\ UNCHANGED <<parked, request, calls, req, data, metadata, trace, written, response>>

\* An encoding that drops the state whenever the diagnostics hold an error.
ApplyResourceChangeResponseNullOnError(rsp) ==
    [Sent |-> TRUE,
     NewState |-> IF HasError(rsp.Diagnostics) THEN testEmptyDynamicValue ELSE NewDynamicValue(rsp.State),
     Diagnostics |-> Diagnostics(rsp.Diagnostics)]

\* An encoding that sends no state at all when the response holds none.
ApplyResourceChangeResponseNilWhenNull(rsp) ==
    [Sent |-> TRUE,
     NewState |-> IF rsp.State.IsNull THEN NilDynamicValue ELSE NewDynamicValue(rsp.State),
     Diagnostics |-> Diagnostics(rsp.Diagnostics)]

\* An encoding that has no marker for unknown and sends null in its place.
ApplyResourceChangeResponseUnknownAsNull(rsp) ==
    [Sent |-> TRUE,
     NewState |-> NewDynamicValue([rsp.State EXCEPT !.test_computed = IF @ = UnknownValue THEN NullValue ELSE @,
                                                    !.test_required = IF @ = UnknownValue THEN NullValue ELSE @]),
     Diagnostics |-> Diagnostics(rsp.Diagnostics)]

\* The typed response on the wire.
ApplyResourceChangeResponse(rsp) ==
    [Sent |-> TRUE, NewState |-> NewDynamicValue(rsp.State), Diagnostics |-> Diagnostics(rsp.Diagnostics)]

\* The response is encoded and returned to the caller.
EncodeResponse ==
    /\ pc = "ResponseValidated"
    /\ response' = ApplyResourceChangeResponse(resp)
    /\ pc' = "Encoded"
    /\ UNCHANGED <<parked, request, calls, req, resp, data, metadata, trace, written, returned>>

Next ==
    \/ ResolveSchema
    \/ BuildRequest
    \/ CreateResource
    \/ UpdateResource
    \/ DeleteResource
    \/ ConfigGet
    \/ PlanGet
    \/ StateGet
    \/ ProviderMetaGet
    \/ StateSet
    \/ StateRemoveResource
    \/ DiagnosticsAddWarning
    \/ DiagnosticsAddError
    \/ ValidateResponse
    \/ EncodeResponse

Spec == Init /\ [][Next]_vars

----------------------------------------------------------------------------
(* ReadResource: the provider's Read on the current state                  *)

\* The wire requests of ReadResource: a current state and, optionally,
\* ProviderMeta.
ReadRequests ==
    {[TypeName |-> "test_resource",
      CurrentState |-> NewDynamicValue(ObjectValue(c, r)),
      ProviderMeta |-> m] : r \in RequiredStrings, c \in PriorComputed, m \in ProviderMetas}

InitRead ==
    /\ request \in ReadRequests
    /\ pc = "Initialized"
    /\ calls = <<>>
    /\ req = EmptyRequest
    /\ resp = EmptyResponse
    /\ data = ZeroSchemaData
    /\ metadata = ZeroProviderMetaData
    /\ trace = <<>>
    /\ written = NoWrite
    /\ returned = EmptyResponse
    /\ response = NoResponse
    /\ parked = <<>>

\* The current state and ProviderMeta are decoded into ReadRequest.
BuildReadRequest ==
    /\ pc = "SchemaResolved"
    /\ req' = [Config |-> NullObject,
               Plan |-> NullObject,
               State |-> DecodeDynamicValue(request.CurrentState),
               ProviderMeta |-> IF request.ProviderMeta.Present THEN request.ProviderMeta.Value ELSE NullProviderMeta]
    /\ pc' = "RequestBuilt"
    /\ UNCHANGED <<parked, request, calls, resp, data, metadata, trace, written, returned, response>>

\* A ReadResponse that starts empty.
ReadInitialStateEmpty(r) == NullObject

\* ReadResponse.State as Read receives it: pre-populated from
\* ReadRequest.State.
ReadInitialState(r) == r.State

\* The provider's Read is entered with its response.
ReadResource ==
    /\ pc = "RequestBuilt"
    /\ calls' = Append(calls, "Read")
    /\ resp' = [State |-> ReadInitialState(req), Diagnostics |-> <<>>]
    /\ pc' = "ProviderInvoked"
    /\ UNCHANGED <<parked, request, req, data, metadata, trace, written, returned, response>>

NextRead ==
    \/ ResolveSchema
    \/ BuildReadRequest
    \/ ReadResource
    \/ StateGet
    \/ ProviderMetaGet
    \/ StateSet
    \/ StateRemoveResource
    \/ DiagnosticsAddWarning
    \/ DiagnosticsAddError
    \/ ValidateResponse
    \/ EncodeResponse

SpecRead == InitRead /\ [][NextRead]_vars

----------------------------------------------------------------------------
(* Requests naming a resource type the provider does not have              *)

\* The test requests, for a type name that GetResources does not return.
UnregisteredRequests == {[r EXCEPT !.TypeName = "missing_resource"] : r \in Requests}

\* The diagnostic of a failed resource type lookup.
ResourceTypeNotFoundDiagnostic == [Severity |-> SeverityError, Summary |-> "Resource Type Not Found", Detail |-> "No resource type named \"missing_resource\" was found in the provider."]

\* A lookup miss that is not reported.
ResourceTypeNotFoundResponseSilent(rsp) == rsp

\* The response of a request whose resource type is not found: the error
\* is added to its diagnostics and it holds no state.
ResourceTypeNotFoundResponse(rsp) == [rsp EXCEPT !.Diagnostics = Append(@, ResourceTypeNotFoundDiagnostic)]

\* The lookup by type name misses: no request is built and no provider
\* method is invoked; the dispatcher goes on to encode the response.
ResourceTypeNotFound ==
    /\ pc = "Initialized"
    /\ request.TypeName \notin DOMAIN GetResources
    /\ resp' = ResourceTypeNotFoundResponse(resp)
    /\ pc' = "ResponseValidated"
    /\ UNCHANGED <<parked, request, calls, req, data, metadata, trace, written, returned, response>>

InitTypeName ==
    /\ request \in Requests \cup UnregisteredRequests
    /\ pc = "Initialized"
    /\ calls = <<>>
    /\ req = EmptyRequest
    /\ resp = EmptyResponse
    /\ data = ZeroSchemaData
    /\ metadata = ZeroProviderMetaData
    /\ trace = <<>>
    /\ written = NoWrite
    /\ returned = EmptyResponse
    /\ response = NoResponse
    /\ parked = <<>>

NextTypeName ==
    \/ Next
    \/ ResourceTypeNotFound

SpecTypeName == InitTypeName /\ [][NextTypeName]_vars

----------------------------------------------------------------------------
(* fromproto6.UpgradeResourceStateRequest: the conversion of the wire      *)
(* request of UpgradeResourceState into the typed request                  *)

\* Bound on the schema versions a wire request carries (besides 123).
MaxVersion == 6

\* testFwSchema: test_attribute is Required.
testFwSchema == [test_attribute |-> "Required"]

\* The zero tfsdk.Schema.
ZeroSchema == [test_attribute |-> "absent"]

\* resourceSchema *tfsdk.Schema: nil, or a pointer to testFwSchema.
NilSchema == [IsNil |-> TRUE, Schema |-> ZeroSchema]

ResourceSchemas == {NilSchema, [IsNil |-> FALSE, Schema |-> testFwSchema]}

\* A nil *tfprotov6.RawState.
NilRawState == [IsNil |-> TRUE, test_attribute |-> ""]

\* testNewRawState(t, map[string]interface{}{"test_attribute": v})
testNewRawState(v) == [IsNil |-> FALSE, test_attribute |-> v]

RawStates == {NilRawState} \cup {testNewRawState(v) : v \in {"test-value", "test-old-value", "test-new-value"}}

\* Version of a wire request: absent (0) or set.
Versions == (0..MaxVersion) \cup {123}

\* A nil *tfprotov6.UpgradeResourceStateRequest.
NilUpgradeRequest == [IsNil |-> TRUE, RawState |-> NilRawState, Version |-> 0]

UpgradeRequests == {NilUpgradeRequest} \cup {[IsNil |-> FALSE, RawState |-> r, Version |-> v] : r \in RawStates, v \in Versions}

\* A nil *fwserver.UpgradeResourceStateRequest.
NilFwUpgradeRequest == [IsNil |-> TRUE, RawState |-> NilRawState, ResourceSchema |-> ZeroSchema, Version |-> 0]

\* The diagnostic of a conversion without a schema.
UnableToCreateEmptyState == [Severity |-> SeverityError, Summary |-> "Unable to Create Empty State", Detail |-> "An unexpected error was encountered when creating the empty state. This is always an issue in the Terraform Provider SDK used to implement the provider and should be reported to the provider developers.\n\nPlease report this to the provider developer:\n\nMissing schema."]

\* A conversion that does not look at the schema pointer.
UpgradeResourceStateRequestNoSchemaCheck(proto6, resourceSchema) ==
    IF proto6.IsNil
    THEN [Request |-> NilFwUpgradeRequest, Diagnostics |-> <<>>]
    ELSE [Request |-> [IsNil |-> FALSE, RawState |-> proto6.RawState, ResourceSchema |-> resourceSchema.Schema, Version |-> proto6.Version],
          Diagnostics |-> <<>>]

\* A conversion that checks the schema before the request.
UpgradeResourceStateRequestSchemaFirst(proto6, resourceSchema) ==
    IF resourceSchema.IsNil
    THEN [Request |-> NilFwUpgradeRequest, Diagnostics |-> <<UnableToCreateEmptyState>>]
    ELSE IF proto6.IsNil
    THEN [Request |-> NilFwUpgradeRequest, Diagnostics |-> <<>>]
    ELSE [Request |-> [IsNil |-> FALSE, RawState |-> proto6.RawState, ResourceSchema |-> resourceSchema.Schema, Version |-> proto6.Version],
          Diagnostics |-> <<>>]

\* A conversion that does not copy the version.
UpgradeResourceStateRequestDropsVersion(proto6, resourceSchema) ==
    IF proto6.IsNil
    THEN [Request |-> NilFwUpgradeRequest, Diagnostics |-> <<>>]
    ELSE IF resourceSchema.IsNil
    THEN [Request |-> NilFwUpgradeRequest, Diagnostics |-> <<UnableToCreateEmptyState>>]
    ELSE [Request |-> [IsNil |-> FALSE, RawState |-> proto6.RawState, ResourceSchema |-> resourceSchema.Schema, Version |-> 0],
          Diagnostics |-> <<>>]

\* fromproto6.UpgradeResourceStateRequest(ctx, proto6, resourceType, resourceSchema):
\* the typed request and the diagnostics it returns.
UpgradeResourceStateRequest(proto6, resourceSchema) ==
    IF proto6.IsNil
    THEN [Request |-> NilFwUpgradeRequest, Diagnostics |-> <<>>]
    ELSE IF resourceSchema.IsNil
    THEN [Request |-> NilFwUpgradeRequest, Diagnostics |-> <<UnableToCreateEmptyState>>]
    ELSE [Request |-> [IsNil |-> FALSE, RawState |-> proto6.RawState, ResourceSchema |-> resourceSchema.Schema, Version |-> proto6.Version],
          Diagnostics |-> <<>>]

\* A conversion is about to run on a wire request and a schema pointer.
InitUpgrade ==
    /\ request \in {[proto6 |-> p, resourceSchema |-> s] : p \in UpgradeRequests, s \in ResourceSchemas}
    /\ pc = "Initialized"
    /\ calls = <<>>
    /\ req = NilFwUpgradeRequest
    /\ resp = EmptyResponse
    /\ data = ZeroSchemaData
    /\ metadata = ZeroProviderMetaData
    /\ trace = <<>>
    /\ written = NoWrite
    /\ returned = EmptyResponse
    /\ response = NoResponse
    /\ parked = <<>>

\* got, diags := fromproto6.UpgradeResourceStateRequest(...): req holds got,
\* resp.Diagnostics holds diags.
ConvertUpgradeResourceStateRequest ==
    /\ pc = "Initialized"
    /\ req' = UpgradeResourceStateRequest(request.proto6, request.resourceSchema).Request
    /\ resp' = [resp EXCEPT !.Diagnostics = UpgradeResourceStateRequest(request.proto6, request.resourceSchema).Diagnostics]
    /\ pc' = "RequestBuilt"
    /\ UNCHANGED <<parked, request, calls, data, metadata, trace, written, returned, response>>

NextUpgrade == ConvertUpgradeResourceStateRequest

SpecUpgrade == InitUpgrade /\ [][NextUpgrade]_vars

----------------------------------------------------------------------------
(* Progress: the dispatcher's code runs on, and the provider's method is    *)
(* assumed to return                                                        *)

\* The steps of the dispatcher itself; ValidateResponse is the return of
\* the provider's method.
Dispatcher ==
    \/ ResolveSchema
    \/ ResourceTypeNotFound
    \/ BuildRequest
    \/ CreateResource
    \/ UpdateResource
    \/ DeleteResource
    \/ ValidateResponse
    \/ EncodeResponse

FairSpecTypeName == SpecTypeName /\ WF_vars(Dispatcher)

----------------------------------------------------------------------------
(* Round trips: a wire value is decoded into a container, the provider      *)
(* keeps it, copies it through its struct or replaces it, and the container *)
(* is encoded and decoded again                                             *)

\* The strings of the wire values: empty, or a test value.
WireStrings == {"", "test-config-value", "test-plannedstate-value"}

\* A string attribute on the wire: null, unknown or known.
WireAttributes == WireStrings \cup {NullValue, UnknownValue}

\* The wire values of testSchemaType: the null object, or an object whose
\* attributes are each null, unknown or known.
WireValues ==
    {testEmptyDynamicValue} \cup {NewDynamicValue(ObjectValue(c, r)) : c \in WireAttributes, r \in WireAttributes}

\* The structs a provider builds itself: each field null, unknown or known.
SchemaDatas ==
    [TestComputed : {ValueFromTerraform(v) : v \in WireAttributes},
     TestRequired : {ValueFromTerraform(v) : v \in WireAttributes}]

InitRoundTrip ==
    /\ request \in {[TypeName |-> "test_resource", Wire |-> v] : v \in WireValues}
    /\ pc = "Initialized"
    /\ calls = <<>>
    /\ req = EmptyRequest
    /\ resp = EmptyResponse
    /\ data = ZeroSchemaData
    /\ metadata = ZeroProviderMetaData
    /\ trace = <<>>
    /\ written = NoWrite
    /\ returned = EmptyResponse
    /\ response = NoResponse
    /\ parked = <<>>

\* The wire value is decoded into a container, which the response starts
\* from.
DecodeWire ==
    /\ pc = "Initialized"
    /\ req' = [EmptyRequest EXCEPT !.State = DecodeDynamicValue(request.Wire)]
    /\ resp' = [State |-> DecodeDynamicValue(request.Wire), Diagnostics |-> <<>>]
    /\ pc' = "ProviderInvoked"
    /\ UNCHANGED <<parked, request, calls, data, metadata, trace, written, returned, response>>

\* The provider reads the container into its struct.
RoundTripGet ==
    /\ pc = "ProviderInvoked"
    /\ trace = <<>>
    /\ ~req.State.IsNull
    /\ data' = Get(req.State)
    /\ trace' = Append(trace, "State.Get")
    /\ UNCHANGED <<parked, request, pc, calls, req, resp, metadata, written, returned, response>>

\* The provider writes the struct it read, or one it built itself.
RoundTripSet ==
    /\ pc = "ProviderInvoked"
    /\ written.Op = "none"
    /\ \E d \in (IF trace = <<>> THEN SchemaDatas ELSE {data}) :
           /\ resp' = [resp EXCEPT !.State = Set(d)]
           /\ written' = [Op |-> "Set", Data |-> d, Value |-> Set(d)]
    /\ trace' = Append(trace, "State.Set")
    /\ UNCHANGED <<parked, request, pc, calls, req, data, metadata, returned, response>>

\* The provider returns; the container is encoded.
RoundTripEncode ==
    /\ pc = "ProviderInvoked"
    /\ response' = ApplyResourceChangeResponse(resp)
    /\ pc' = "Encoded"
    /\ UNCHANGED <<parked, request, calls, req, resp, data, metadata, trace, written, returned>>

\* The encoded value is decoded by the next request that carries it.
RoundTripDecode ==
    /\ pc = "Encoded"
    /\ returned' = [State |-> DecodeDynamicValue(response.NewState), Diagnostics |-> <<>>]
    /\ pc' = "Decoded"
    /\ UNCHANGED <<parked, request, calls, req, resp, data, metadata, trace, written, response>>

NextRoundTrip ==
    \/ DecodeWire
    \/ RoundTripGet
    \/ RoundTripSet
    \/ RoundTripEncode
    \/ RoundTripDecode

SpecRoundTrip == InitRoundTrip /\ [][NextRoundTrip]_vars

----------------------------------------------------------------------------
(* Get into a target struct whose fields may not be those of the schema     *)

\* The tfsdk-tagged fields of the structs handed to Get: testSchemaData, a
\* struct that lacks a field, and a struct with a field the schema lacks.
Targets == {testSchemaType, {"test_required"}, testSchemaType \cup {"test_optional"}}

\* The diagnostic of a Get whose target cannot hold the container's value.
ValueConversionError == [Severity |-> SeverityError, Summary |-> "Value Conversion Error", Detail |-> "An unexpected error was encountered trying to convert the value."]

\* container.Get(ctx, &target): the struct as Get leaves it, and the
\* diagnostics Get returns. A target whose fields are not the attributes of
\* the schema, and a null object, which a struct cannot hold, are reported
\* and leave the target as it was.
GetInto(raw, fields, target) ==
    IF fields # testSchemaType \/ raw.IsNull
    THEN [Data |-> target, Diagnostics |-> <<ValueConversionError>>]
    ELSE [Data |-> Get(raw), Diagnostics |-> <<>>]

InitGet ==
    /\ request \in {[TypeName |-> "test_resource", Wire |-> v, Target |-> f] : v \in WireValues, f \in Targets}
    /\ pc = "Initialized"
    /\ calls = <<>>
    /\ req = EmptyRequest
    /\ resp = EmptyResponse
    /\ data = ZeroSchemaData
    /\ metadata = ZeroProviderMetaData
    /\ trace = <<>>
    /\ written = NoWrite
    /\ returned = EmptyResponse
    /\ response = NoResponse
    /\ parked = <<>>

\* resp.Diagnostics.Append(req.State.Get(ctx, &target)...)
StateGetInto ==
    /\ pc = "ProviderInvoked"
    /\ trace = <<>>
    /\ data' = GetInto(req.State, request.Target, data).Data
    /\ resp' = [resp EXCEPT !.Diagnostics = @ \o GetInto(req.State, request.Target, data).Diagnostics]
    /\ trace' = Append(trace, "State.Get")
    /\ UNCHANGED <<parked, request, pc, calls, req, metadata, written, returned, response>>

NextGet ==
    \/ DecodeWire
    \/ StateGetInto
    \/ RoundTripEncode

SpecGet == InitGet /\ [][NextGet]_vars

----------------------------------------------------------------------------
(* Requests served in parallel: the goroutine of one request runs while    *)
(* the other is parked at any point of its service; the scheduler may       *)
(* switch between them before every step                                    *)

\* Bound on the calls a provider method makes when two requests are served
\* in parallel.
MaxParallelCalls == 2

\* A create, an update and a delete request whose values all differ.
ParallelRequests ==
    {[TypeName |-> "test_resource",
      Config |-> NewDynamicValue(ObjectValue(NullValue, "test-new-value")),
      PlannedState |-> NewDynamicValue(ObjectValue(UnknownValue, "test-new-value")),
      PriorState |-> testEmptyDynamicValue,
      ProviderMeta |-> [Present |-> FALSE, Value |-> NullProviderMeta]],
     [TypeName |-> "test_resource",
      Config |-> NewDynamicValue(ObjectValue(NullValue, "test-new-value")),
      PlannedState |-> NewDynamicValue(ObjectValue("test-plannedstate-value", "test-new-value")),
      PriorState |-> NewDynamicValue(ObjectValue(NullValue, "test-old-value")),
      ProviderMeta |-> [Present |-> FALSE, Value |-> NullProviderMeta]],
     [TypeName |-> "test_resource",
      Config |-> NilDynamicValue,
      PlannedState |-> testEmptyDynamicValue,
      PriorState |-> NewDynamicValue(ObjectValue("test-plannedstate-value", "test-old-value")),
      ProviderMeta |-> [Present |-> FALSE, Value |-> NullProviderMeta]]}

\* The goroutine of a request that has not started.
NewGoroutine(r) ==
    [request |-> r, pc |-> "Initialized", calls |-> <<>>, req |-> EmptyRequest, resp |-> EmptyResponse,
     data |-> ZeroSchemaData, metadata |-> ZeroProviderMetaData, trace |-> <<>>, written |-> NoWrite,
     returned |-> EmptyResponse, response |-> NoResponse]

\* The goroutine of the running request: everything its service holds.
Goroutine ==
    [request |-> request, pc |-> pc, calls |-> calls, req |-> req, resp |-> resp,
     data |-> data, metadata |-> metadata, trace |-> trace, written |-> written,
     returned |-> returned, response |-> response]

InitParallel ==
    /\ request \in ParallelRequests
    /\ pc = "Initialized"
    /\ calls = <<>>
    /\ req = EmptyRequest
    /\ resp = EmptyResponse
    /\ data = ZeroSchemaData
    /\ metadata = ZeroProviderMetaData
    /\ trace = <<>>
    /\ written = NoWrite
    /\ returned = EmptyResponse
    /\ response = NoResponse
    /\ parked \in {<<NewGoroutine(r)>> : r \in ParallelRequests}

\* A data struct declared once for all requests.
SharedData(g) == data

\* The struct a resumed method finds: its own, declared inside the method
\* (var data testSchemaData).
ResumedData(g) == g.data

\* The scheduler parks the running goroutine and resumes the parked one.
Switch ==
    /\ parked # <<>>
    /\ LET g == parked[1] IN
           /\ request' = g.request
           /\ pc' = g.pc
           /\ calls' = g.calls
           /\ req' = g.req
           /\ resp' = g.resp
           /\ data' = ResumedData(g)
           /\ metadata' = g.metadata
           /\ trace' = g.trace
           /\ written' = g.written
           /\ returned' = g.returned
           /\ response' = g.response
    /\ parked' = <<Goroutine>>

\* The provider method has calls left.
ParallelProvider == Len(trace) < MaxParallelCalls

NextParallel ==
    \/ Switch
    \/ ResolveSchema
    \/ BuildRequest
    \/ CreateResource
    \/ UpdateResource
    \/ DeleteResource
    \/ ParallelProvider /\ ConfigGet
    \/ ParallelProvider /\ PlanGet
    \/ ParallelProvider /\ StateGet
    \/ ParallelProvider /\ StateSet
    \/ ParallelProvider /\ DiagnosticsAddError
    \/ ValidateResponse
    \/ EncodeResponse

SpecParallel == InitParallel /\ [][NextParallel]_vars

----------------------------------------------------------------------------
(* Vocabulary of the properties                                            *)

\* The provider method made the call op at least once.
Called(op) == \E i \in 1..Len(trace) : trace[i] = op

\* The request was served by method m and its response is on the wire.
Served(m) == pc = "Encoded" /\ Method = m

\* The provider method is running and has made no call yet.
Entered(m) == pc = "ProviderInvoked" /\ Method = m /\ trace = <<>>

\* The diagnostics calls of the provider method, in the order it made them.
AddedCalls == SelectSeq(trace, LAMBDA op : op \in {"Diagnostics.AddWarning", "Diagnostics.AddError"})

\* What the test table expects on the wire for one provider diagnostic.
ExpectedDiagnostic(op) ==
    IF op = "Diagnostics.AddError"
    THEN [Severity |-> "DiagnosticSeverityError", Summary |-> "error summary", Detail |-> "error detail"]
    ELSE [Severity |-> "DiagnosticSeverityWarning", Summary |-> "warning summary", Detail |-> "warning detail"]

\* The wire diagnostics start with the provider's, in the order added.
ProviderDiagnosticsFirst ==
    /\ Len(response.Diagnostics) >= Len(AddedCalls)
    /\ \A i \in 1..Len(AddedCalls) : response.Diagnostics[i] = ExpectedDiagnostic(AddedCalls[i])

\* The wire diagnostics are the provider's and nothing else.
OnlyProviderDiagnostics == ProviderDiagnosticsFirst /\ Len(response.Diagnostics) = Len(AddedCalls)

\* The positions of the error-severity diagnostics of the wire response.
ErrorPositions == {i \in 1..Len(response.Diagnostics) : response.Diagnostics[i].Severity = "DiagnosticSeverityError"}

\* The wire response holds exactly one error, and its summary is summary.
ExactlyOneError(summary) ==
    /\ Cardinality(ErrorPositions) = 1
    /\ \A i \in ErrorPositions : response.Diagnostics[i].Summary = summary

\* The wire diagnostics that follow the provider's own.
SynthesizedDiagnostics == SubSeq(response.Diagnostics, Len(AddedCalls) + 1, Len(response.Diagnostics))

\* The structs a provider method can hand to State.Set: the declared zero
\* struct, or what Get read from the request's Config, Plan or prior State.
RequestData ==
    {ZeroSchemaData}
        \cup {Get(dv.Value) : dv \in {d \in {request.Config, request.PlannedState, request.PriorState} : d.Present /\ ~d.Value.IsNull}}

\* NewState as the provider's writes, its errors and the prior state
\* determine it.
NewStateFromStateAndWrites ==
    IF Method = "Delete" /\ ~Called("Diagnostics.AddError") THEN testEmptyDynamicValue
    ELSE IF written.Op = "Set" THEN NewDynamicValue(Set(written.Data))
    ELSE IF written.Op = "RemoveResource" \/ Method = "Create" THEN testEmptyDynamicValue
    ELSE request.PriorState

\* The typed request the dispatcher builds from the wire request r.
RequestOf(r) ==
    [Config |-> DecodeDynamicValue(r.Config),
     Plan |-> DecodeDynamicValue(r.PlannedState),
     State |-> DecodeDynamicValue(r.PriorState)]

\* One call of a provider method served alone, on its struct and response.
CallAlone(r, op, s) ==
    CASE op = "Config.Get" -> [s EXCEPT !.data = Get(RequestOf(r).Config)]
      [] op = "Plan.Get" -> [s EXCEPT !.data = Get(RequestOf(r).Plan)]
      [] op = "State.Get" -> [s EXCEPT !.data = Get(RequestOf(r).State)]
      [] op = "State.Set" -> [s EXCEPT !.resp.State = Set(s.data)]
      [] op = "State.RemoveResource" -> [s EXCEPT !.resp.State = RemoveResource]
      [] op = "Diagnostics.AddWarning" -> [s EXCEPT !.resp.Diagnostics = AddWarning(@)]
      [] op = "Diagnostics.AddError" -> [s EXCEPT !.resp.Diagnostics = AddError(@)]
      [] OTHER -> s

RECURSIVE CallsAlone(_, _, _)
CallsAlone(r, t, s) == IF t = <<>> THEN s ELSE CallsAlone(r, Tail(t), CallAlone(r, Head(t), s))

\* The struct and response of the method of request r, served alone, after
\* the calls t.
MethodAlone(r, t) ==
    LET m == LifecycleMethod(RequestOf(r))
        state == CASE m = "Create" -> CreateInitialState(RequestOf(r))
                   [] m = "Update" -> UpdateInitialState(RequestOf(r))
                   [] OTHER -> DeleteInitialState(RequestOf(r))
    IN CallsAlone(r, t, [data |-> ZeroSchemaData, resp |-> [State |-> state, Diagnostics |-> <<>>]])

\* The wire response of request r served alone by a method making the
\* calls t.
ServedAlone(r, t) ==
    LET m == LifecycleMethod(RequestOf(r))
        rsp == MethodAlone(r, t).resp
    IN ApplyResourceChangeResponse(CASE m = "Create" -> CreateResourceResponse(rsp)
                                     [] m = "Update" -> UpdateResourceResponse(rsp)
                                     [] OTHER -> DeleteResourceResponse(rsp))

\* The goroutine g is where its request, served alone, would be.
Isolated(g) ==
    /\ g.pc \in {"ProviderInvoked", "ResponseValidated", "Encoded"}
           => /\ g.data = MethodAlone(g.request, g.trace).data
              /\ g.returned = IF g.pc = "ProviderInvoked" THEN EmptyResponse ELSE MethodAlone(g.request, g.trace).resp
    /\ g.pc = "ProviderInvoked" => g.resp = MethodAlone(g.request, g.trace).resp
    /\ g.pc = "Encoded" => g.response = ServedAlone(g.request, g.trace)
    /\ g.pc # "Encoded" => g.response = NoResponse

----------------------------------------------------------------------------
(* Properties                                                              *)

\* C1: a Create in which the provider adds no error diagnostic and leaves
\* the response State null (its last write, if any, is not a Set) answers
\* with exactly one error diagnostic, "Missing Resource State After Create",
\* and NewState is the empty (null object) value, not the Plan.
C1_CreateMissingState ==
    (Served("Create") /\ ~Called("Diagnostics.AddError") /\ written.Op # "Set")
        => /\ ExactlyOneError("Missing Resource State After Create")
           /\ response.NewState = testEmptyDynamicValue
           /\ response.NewState # request.PlannedState

C1_Witness ==
    /\ Served("Create")
    /\ ~Called("Diagnostics.AddError")
    /\ written.Op = "none"
    /\ Called("Diagnostics.AddWarning")
    /\ Called("Plan.Get")

\* C2: an Update in which the provider adds no error diagnostic and leaves
\* the response State null (RemoveResource) answers with exactly one error
\* diagnostic, "Missing Resource State After Update", and NewState is the
\* null value.
C2_UpdateMissingState ==
    (Served("Update") /\ ~Called("Diagnostics.AddError") /\ written.Op = "RemoveResource")
        => /\ ExactlyOneError("Missing Resource State After Update")
           /\ response.NewState = testEmptyDynamicValue

C2_Witness ==
    /\ Served("Update")
    /\ ~Called("Diagnostics.AddError")
    /\ written.Op = "RemoveResource"
    /\ Called("State.Set")

\* C3: an Update in which the provider never writes the response State and
\* adds no error diagnostic answers with NewState equal to the prior State,
\* and with no diagnostics but the provider's own (none at all when the
\* provider only reads its request).
C3_UpdateNoSetKeepsPriorState ==
    (Served("Update") /\ written.Op = "none" /\ ~Called("Diagnostics.AddError"))
        => /\ response.NewState = request.PriorState
           /\ OnlyProviderDiagnostics
           /\ (~Called("Diagnostics.AddWarning") => response.Diagnostics = <<>>)

C3_Witness ==
    /\ Served("Update")
    /\ written.Op = "none"
    /\ AddedCalls = <<>>
    /\ Called("Config.Get")
    /\ Called("Plan.Get")
    /\ Called("State.Get")
    /\ request.PriorState # request.PlannedState
    /\ response.NewState # request.PlannedState

\* C4 as stated: the response State of an Update starts as a copy of the
\* Plan, and left unmodified it is the Plan that is encoded as NewState.
C4_UpdateStartsFromPlan ==
    /\ Entered("Update") => resp.State = req.Plan
    /\ (Served("Update") /\ written.Op = "none") => response.NewState = request.PlannedState

\* C4 as amended: the response State of an Update starts as a copy of the
\* prior State, and left unmodified it is the prior State that is encoded
\* as NewState, with or without provider diagnostics.
C4_UpdateStartsFromPriorState ==
    /\ Entered("Update") => (resp.State = req.State /\ ~resp.State.IsNull)
    /\ (Served("Update") /\ written.Op = "none") => response.NewState = request.PriorState

C4_Witness ==
    /\ Served("Update")
    /\ trace = <<>>
    /\ request.PriorState # request.PlannedState

\* C5: a Delete in which the provider adds no error diagnostic and does not
\* write the response State answers with the null value as NewState,
\* whatever the prior State and with or without ProviderMeta.
C5_DeleteDefaultsToNull ==
    (Served("Delete") /\ ~Called("Diagnostics.AddError") /\ written.Op = "none")
        => response.NewState = testEmptyDynamicValue

C5_Witness ==
    /\ Served("Delete")
    /\ ~Called("Diagnostics.AddError")
    /\ written.Op = "none"
    /\ Called("ProviderMeta.Get")
    /\ Called("State.Get")
    /\ ~request.PriorState.Value.IsNull

\* C6 as stated: a Delete in which the provider sets the response State to
\* a non-null value and adds no error diagnostic answers with the value the
\* provider set.
C6_DeleteHonorsProviderState ==
    (Served("Delete") /\ ~Called("Diagnostics.AddError") /\ written.Op = "Set")
        => response.NewState = NewDynamicValue(written.Value)

\* C6 as amended: a Delete in which the provider adds no error diagnostic
\* answers with the null value as NewState also when the provider set the
\* response State to a non-null value: the resource is removed
\* automatically and the value the provider set is not encoded.
C6_DeleteRemovesProviderState ==
    (Served("Delete") /\ ~Called("Diagnostics.AddError") /\ written.Op = "Set")
        => /\ ~written.Value.IsNull
           /\ response.NewState = testEmptyDynamicValue
           /\ response.NewState # NewDynamicValue(written.Value)

C6_Witness ==
    /\ Served("Delete")
    /\ ~Called("Diagnostics.AddError")
    /\ written.Op = "Set"
    /\ returned.State = written.Value
    /\ ~returned.State.IsNull

\* C7: a Delete in which the provider adds an error diagnostic and does not
\* write the response State answers with the prior State as NewState and
\* with exactly the provider's diagnostics.
C7_DeleteErrorKeepsPriorState ==
    (Served("Delete") /\ Called("Diagnostics.AddError") /\ written.Op = "none")
        => /\ response.NewState = request.PriorState
           /\ ~response.NewState.Value.IsNull
           /\ OnlyProviderDiagnostics

C7_Witness ==
    /\ Served("Delete")
    /\ trace = <<"Diagnostics.AddWarning", "Diagnostics.AddError">>

\* C8 as stated: the response State of a Delete starts null, and in every
\* case but "the provider set it non-null without an error diagnostic" the
\* null value is encoded as NewState.
C8_DeleteElseNull ==
    /\ Entered("Delete") => resp.State.IsNull
    /\ (Served("Delete") /\ ~(written.Op = "Set" /\ ~Called("Diagnostics.AddError")))
           => response.NewState = testEmptyDynamicValue

\* C8 as amended: the response State of a Delete starts as the prior State;
\* the null value is encoded as NewState when the provider adds no error
\* diagnostic, and when it adds one the State as the provider left it is
\* encoded: the prior State if it wrote nothing, else its last write.
C8_DeleteNullUnlessError ==
    /\ Entered("Delete") => (resp.State = req.State /\ ~resp.State.IsNull)
    /\ (Served("Delete") /\ ~Called("Diagnostics.AddError"))
           => response.NewState = testEmptyDynamicValue
    /\ (Served("Delete") /\ Called("Diagnostics.AddError"))
           => response.NewState = IF written.Op = "none" THEN request.PriorState
                                  ELSE NewDynamicValue(written.Value)

C8_Witness ==
    /\ Served("Delete")
    /\ Called("Diagnostics.AddError")
    /\ written.Op = "Set"
    /\ response.NewState # request.PriorState
    /\ response.NewState # testEmptyDynamicValue

\* C9: for Create, Update and Delete the diagnostics the provider added are
\* in the wire response in the order it added them, warnings and errors
\* interleaved as added, each with its severity, summary and detail; a
\* diagnostic the dispatcher adds comes after them.
C9_DiagnosticsInOrderAdded ==
    pc = "Encoded" => /\ ProviderDiagnosticsFirst
                      /\ Len(response.Diagnostics) <= Len(AddedCalls) + 1

C9_Witness ==
    /\ pc = "Encoded"
    /\ AddedCalls = <<"Diagnostics.AddWarning", "Diagnostics.AddError", "Diagnostics.AddWarning">>

\* C10: one lifecycle method is invoked per request, chosen by the nullity
\* of the prior and planned state on the wire: Create when the prior State
\* is null, Delete when the planned State is null and the prior State is
\* not, Update when neither is; nothing is invoked before the dispatch.
C10_DispatchByNullity ==
    IF pc \in {"Initialized", "SchemaResolved", "RequestBuilt"}
    THEN calls = <<>>
    ELSE /\ Len(calls) = 1
         /\ calls[1] = IF request.PriorState.Value.IsNull THEN "Create"
                       ELSE IF request.PlannedState.Value.IsNull THEN "Delete"
                       ELSE "Update"
         /\ (calls[1] = "Create" => ~Called("State.Get"))
         /\ (calls[1] = "Delete" => ~Called("Config.Get") /\ ~Called("Plan.Get"))

C10_Witness ==
    /\ Served("Delete")
    /\ Called("State.Get")
    /\ request.PlannedState = testEmptyDynamicValue

\* The wire response holds no diagnostic with this summary.
NoDiagnosticWith(summary) == \A i \in 1..Len(response.Diagnostics) : response.Diagnostics[i].Summary # summary

\* C11: a Create in which the provider adds an error diagnostic and leaves
\* the response State null answers with exactly the provider's diagnostics
\* (no "Missing Resource State After Create" is added) and with the null
\* value as NewState, never the Plan.
C11_CreateErrorNoSynthesizedDiagnostic ==
    (Served("Create") /\ Called("Diagnostics.AddError") /\ written.Op # "Set")
        => /\ OnlyProviderDiagnostics
           /\ NoDiagnosticWith("Missing Resource State After Create")
           /\ response.NewState = testEmptyDynamicValue
           /\ response.NewState # request.PlannedState

C11_Witness ==
    /\ Served("Create")
    /\ trace = <<"Diagnostics.AddWarning", "Diagnostics.AddError">>
    /\ returned.State.IsNull

\* C12: an Update in which the provider adds an error diagnostic and never
\* writes the response State answers with the prior State as NewState, with
\* exactly the provider's diagnostics, and without "Missing Resource State
\* After Update".
C12_UpdateErrorKeepsPriorState ==
    (Served("Update") /\ Called("Diagnostics.AddError") /\ written.Op = "none")
        => /\ response.NewState = request.PriorState
           /\ ~response.NewState.Value.IsNull
           /\ OnlyProviderDiagnostics
           /\ NoDiagnosticWith("Missing Resource State After Update")

C12_Witness ==
    /\ Served("Update")
    /\ trace = <<"Diagnostics.AddWarning", "Diagnostics.AddError">>
    /\ request.PriorState # request.PlannedState

\* The tftypes value v is what the struct field s holds: unknown, null or
\* the known string.
HoldsField(v, s) ==
    /\ s.Unknown => v = UnknownValue
    /\ (~s.Unknown /\ s.Null) => v = NullValue
    /\ (~s.Unknown /\ ~s.Null) => v = s.Value

\* C13: a Create or Update in which the provider's last write is Set with a
\* struct d, and which adds no error diagnostic, answers with a NewState
\* that equals d attribute for attribute (a computed attribute null in d is
\* null in NewState whatever the Plan held for it) and with no diagnostics
\* but the provider's own warnings.
C13_SetValueIsNewState ==
    ((Served("Create") \/ Served("Update")) /\ written.Op = "Set" /\ ~Called("Diagnostics.AddError"))
        => /\ response.NewState.Present
           /\ ~response.NewState.Value.IsNull
           /\ HoldsField(response.NewState.Value.test_computed, written.Data.TestComputed)
           /\ HoldsField(response.NewState.Value.test_required, written.Data.TestRequired)
           /\ OnlyProviderDiagnostics
           /\ (~Called("Diagnostics.AddWarning") => response.Diagnostics = <<>>)

C13_Witness ==
    /\ Served("Create")
    /\ trace = <<"Config.Get", "State.Set">>
    /\ request.PlannedState.Value.test_computed = UnknownValue
    /\ written.Data.TestComputed.Null
    /\ response.NewState.Value.test_computed = NullValue
    /\ response.NewState.Value.test_required = request.Config.Value.test_required
    /\ response.Diagnostics = <<>>

\* The conversion of the wire request has returned.
Converted == pc = "RequestBuilt"

\* C14: converting a non-nil UpgradeResourceState wire request without a
\* resource schema yields a nil request and exactly one diagnostic, an error
\* "Unable to Create Empty State" whose detail ends with "Missing schema.".
C14_UpgradeMissingSchema ==
    (Converted /\ ~request.proto6.IsNil /\ request.resourceSchema.IsNil)
        => /\ req.IsNil
           /\ Len(resp.Diagnostics) = 1
           /\ resp.Diagnostics[1].Severity = "ERROR"
           /\ resp.Diagnostics[1].Summary = "Unable to Create Empty State"
           /\ resp.Diagnostics[1].Detail = "An unexpected error was encountered when creating the empty state. This is always an issue in the Terraform Provider SDK used to implement the provider and should be reported to the provider developers.\n\nPlease report this to the provider developer:\n\nMissing schema."

C14_Witness ==
    /\ Converted
    /\ ~request.proto6.IsNil
    /\ request.resourceSchema.IsNil
    /\ request.proto6.Version = 123
    /\ ~request.proto6.RawState.IsNil

\* C15: converting a nil UpgradeResourceState wire request yields a nil
\* request and no diagnostics, with or without a resource schema: the nil
\* request is checked before the missing schema.
C15_UpgradeNilRequest ==
    (Converted /\ request.proto6.IsNil) => (req.IsNil /\ resp.Diagnostics = <<>>)

C15_Witness ==
    /\ Converted
    /\ request.proto6.IsNil
    /\ request.resourceSchema.IsNil

\* C16: converting a non-nil UpgradeResourceState wire request with a
\* schema yields a request with the wire request's RawState and Version
\* unchanged (nil and 0 when absent), the supplied schema as ResourceSchema,
\* and no diagnostics.
C16_UpgradeCopiesFields ==
    (Converted /\ ~request.proto6.IsNil /\ ~request.resourceSchema.IsNil)
        => /\ ~req.IsNil
           /\ req.RawState = request.proto6.RawState
           /\ req.Version = request.proto6.Version
           /\ req.ResourceSchema = request.resourceSchema.Schema
           /\ req.ResourceSchema = testFwSchema
           /\ resp.Diagnostics = <<>>

C16_Witness ==
    /\ Converted
    /\ ~req.IsNil
    /\ req.Version = 123
    /\ req.RawState = testNewRawState("test-value")
    /\ req.ResourceSchema = testFwSchema

\* C17: every ApplyResourceChange call ends with a structurally valid
\* response: until the response is sent the dispatcher always has a step to
\* take (nothing fails hard), and the response sent holds a NewState, the
\* null object standing in when there is no state, whether the provider
\* succeeded, reported errors or left no state.
C17_ResponseAlwaysValid ==
    /\ pc # "Encoded" => (~response.Sent /\ ENABLED Next)
    /\ pc = "Encoded" => /\ response.Sent
                         /\ response.NewState.Present
                         /\ (returned.State.IsNull => response.NewState = testEmptyDynamicValue)

C17_Witness ==
    /\ Served("Create")
    /\ trace = <<>>
    /\ ~NoDiagnosticWith("Missing Resource State After Create")
    /\ response.Sent
    /\ response.NewState = testEmptyDynamicValue

\* C18: a request whose resource type name is not in the registry never
\* invokes a provider lifecycle method and never stops short of a response
\* (no crash, no hard failure); its response is sent and reports the miss
\* as an error diagnostic.
C18_UnregisteredTypeIsDiagnostic ==
    request.TypeName # "test_resource"
        => /\ calls = <<>>
           /\ trace = <<>>
           /\ pc # "Encoded" => (~response.Sent /\ ENABLED NextTypeName)
           /\ pc = "Encoded" => (response.Sent /\ ErrorPositions # {})

C18_Witness ==
    /\ request.TypeName = "missing_resource"
    /\ pc = "Encoded"
    /\ response.Sent
    /\ Len(response.Diagnostics) = 1
    /\ calls = <<>>

\* C19: the response State of a Read is pre-populated from the request's
\* State before the provider's Read runs, so a Read in which the provider
\* does not write the State answers with the current state it was sent.
C19_ReadStartsFromRequestState ==
    /\ Entered("Read") => /\ resp.State = req.State
                          /\ resp.State = request.CurrentState.Value
                          /\ ~resp.State.IsNull
    /\ (Served("Read") /\ written.Op = "none") => response.NewState = request.CurrentState

C19_Witness ==
    /\ Served("Read")
    /\ written.Op = "none"
    /\ Called("State.Get")
    /\ Called("Diagnostics.AddWarning")
    /\ response.NewState = request.CurrentState
    /\ ~response.NewState.Value.IsNull

\* C20: a Read in which the provider leaves the response State null
\* (RemoveResource) and adds no error diagnostic answers with the null
\* state and with no diagnostic of the dispatcher's: no error is
\* synthesized, unlike after Create and Update.
C20_ReadNullStateIsNoError ==
    (Served("Read") /\ written.Op = "RemoveResource" /\ ~Called("Diagnostics.AddError"))
        => /\ OnlyProviderDiagnostics
           /\ ErrorPositions = {}
           /\ response.NewState = testEmptyDynamicValue

C20_Witness ==
    /\ Served("Read")
    /\ trace = <<"State.Get", "State.RemoveResource">>
    /\ response.Diagnostics = <<>>
    /\ response.NewState = testEmptyDynamicValue

\* C21: ProviderMeta is optional for Create, Update and Delete. A request
\* without ProviderMeta is served with the provider's diagnostics and at
\* most the missing-state diagnostic, none about ProviderMeta; when
\* ProviderMeta is supplied, req.ProviderMeta.Get reads exactly the supplied
\* attribute value; and NewState is determined by the provider's writes and
\* the request's Config, PlannedState and PriorState alone.
C21_ProviderMetaOptional ==
    /\ (Served(Method) /\ ~request.ProviderMeta.Present)
           => /\ ProviderDiagnosticsFirst
              /\ \A i \in 1..Len(SynthesizedDiagnostics) :
                     SynthesizedDiagnostics[i].Summary \in {"Missing Resource State After Create", "Missing Resource State After Update"}
              /\ ~Called("ProviderMeta.Get")
    /\ Called("ProviderMeta.Get")
           => /\ request.ProviderMeta.Present
              /\ metadata.TestProviderMetaAttribute = [Unknown |-> FALSE, Null |-> FALSE, Value |-> request.ProviderMeta.Value.test_provider_meta_attribute]
              /\ metadata.TestProviderMetaAttribute.Value = "test-provider-meta-value"
    /\ Served(Method)
           => /\ response.NewState = NewStateFromStateAndWrites
              /\ written.Data \in RequestData

C21_Witness ==
    /\ Served("Create")
    /\ trace = <<"ProviderMeta.Get", "Plan.Get", "State.Set">>
    /\ metadata.TestProviderMetaAttribute.Value = "test-provider-meta-value"
    /\ response.NewState = request.PlannedState
    /\ response.Diagnostics = <<>>

C25_HasErrorIffErrorSeverity ==
    /\ pc = "ProviderInvoked" => (HasError(resp.Diagnostics) <=> Called("Diagnostics.AddError"))
    /\ pc \in {"ResponseValidated", "Encoded"}
           => /\ HasError(returned.Diagnostics) <=> Called("Diagnostics.AddError")
              /\ HasError(resp.Diagnostics) <=> \E i \in 1..Len(resp.Diagnostics) : resp.Diagnostics[i].Severity = SeverityError
    /\ Served(Method) => (HasError(resp.Diagnostics) <=> ErrorPositions # {})
    /\ (Served("Delete") /\ ~Called("Diagnostics.AddError")) => response.NewState = testEmptyDynamicValue
    /\ (Served("Delete") /\ Called("Diagnostics.AddError")) => response.NewState = NewDynamicValue(returned.State)
    /\ (Served("Create") /\ ~Called("Diagnostics.AddError") /\ written.Op = "none")
           => ExactlyOneError("Missing Resource State After Create")

C25_Witness ==
    /\ Served("Delete")
    /\ trace = <<"Diagnostics.AddWarning", "State.Get", "Diagnostics.AddWarning">>
    /\ ~HasError(returned.Diagnostics)
    /\ Len(response.Diagnostics) = 2
    /\ response.NewState = testEmptyDynamicValue

\* C26: RemoveResource sets the value of the container it is called on to
\* null: the container then differs from one holding an object whose
\* attributes are all null, on the wire as well, and the containers of the
\* request (the prior State the response State started from included) are
\* what they were.
C26_RemoveResourceNullsContainer ==
    /\ (pc = "ProviderInvoked" /\ trace # <<>> /\ trace[Len(trace)] = "State.RemoveResource")
           => /\ resp.State.IsNull
              /\ resp.State # ObjectValue(NullValue, NullValue)
              /\ written.Value = resp.State
    /\ Called("State.RemoveResource")
           => /\ req.Config = DecodeDynamicValue(request.Config)
              /\ req.Plan = DecodeDynamicValue(request.PlannedState)
              /\ req.State = DecodeDynamicValue(request.PriorState)
    /\ (Served("Update") /\ written.Op = "RemoveResource")
           => /\ response.NewState = testEmptyDynamicValue
              /\ response.NewState # NewDynamicValue(ObjectValue(NullValue, NullValue))
              /\ ~req.State.IsNull

C26_Witness ==
    /\ Served("Update")
    /\ trace = <<"State.RemoveResource", "State.Get", "State.RemoveResource">>
    /\ data = Get(req.State)
    /\ response.NewState = testEmptyDynamicValue

\* C27: Get gives every unknown attribute the unknown marker in the
\* target, never the zero value of the field's type, and a target whose
\* shape is not the schema's gets an error diagnostic: the request is
\* still answered, with that diagnostic.
C27_GetUnknownAndMismatch ==
    /\ (Called("State.Get") /\ request.Target = testSchemaType /\ ~req.State.IsNull)
           => /\ resp.Diagnostics = <<>>
              /\ req.State.test_computed = UnknownValue
                     <=> (data.TestComputed.Unknown /\ data.TestComputed # ZeroString)
              /\ req.State.test_required = UnknownValue
                     <=> (data.TestRequired.Unknown /\ data.TestRequired # ZeroString)
              /\ req.State.test_computed = "" => data.TestComputed = ZeroString
    /\ (Called("State.Get") /\ request.Target # testSchemaType)
           => /\ HasError(resp.Diagnostics)
              /\ data = ZeroSchemaData
              /\ pc = "ProviderInvoked" => ENABLED RoundTripEncode
              /\ pc = "Encoded" => (response.Sent /\ ErrorPositions = {1})

C27_Witness ==
    /\ pc = "Encoded"
    /\ Called("State.Get")
    /\ request.Target = {"test_required"}
    /\ request.Wire.Value.test_computed = UnknownValue
    /\ response.Diagnostics[1].Summary = "Value Conversion Error"

\* The provider method is running and its last call was op.
JustCalled(op) == pc = "ProviderInvoked" /\ trace # <<>> /\ trace[Len(trace)] = op

\* The provider method has written the response State exactly once.
FirstWrite == Len(SelectSeq(trace, LAMBDA op : op \in {"State.Set", "State.RemoveResource"})) = 1

\* C28 as stated: after Set, a computed attribute for which the source has
\* no value keeps the value the container held before (the prior State, for
\* Update and Delete), and is unknown when the container held none (Create).
C28_SetPreservesComputed ==
    (JustCalled("State.Set") /\ FirstWrite /\ written.Data.TestComputed.Null)
        => resp.State.test_computed = IF Method = "Create" THEN UnknownValue ELSE req.State.test_computed

\* C28 as amended: Set replaces the whole value of the container by the
\* source's: every attribute, the computed one included, is what the source
\* holds for it, and a computed attribute that is null in the source is
\* null in the container and in NewState, whatever the container, the prior
\* State or the Plan held for it.
C28_SetReplacesWholeValue ==
    /\ JustCalled("State.Set")
           => /\ ~resp.State.IsNull
              /\ HoldsField(resp.State.test_computed, written.Data.TestComputed)
              /\ HoldsField(resp.State.test_required, written.Data.TestRequired)
              /\ written.Data = data
              /\ written.Data.TestComputed.Null => resp.State.test_computed = NullValue
    /\ ((Served("Create") \/ Served("Update")) /\ written.Op = "Set" /\ written.Data.TestComputed.Null /\ ~Called("Diagnostics.AddError"))
           => response.NewState.Value.test_computed = NullValue

C28_Witness ==
    /\ Served("Create")
    /\ trace = <<"Config.Get", "State.Set">>
    /\ written.Data.TestComputed.Null
    /\ request.PlannedState.Value.test_computed = UnknownValue
    /\ response.NewState.Value.test_computed = NullValue
    /\ response.NewState.Value.test_required = request.Config.Value.test_required

\* The position of a dispatcher state in the order of the request's
\* service.
Rank(p) ==
    CASE p = "Initialized" -> 1
      [] p = "SchemaResolved" -> 2
      [] p = "RequestBuilt" -> 3
      [] p = "ProviderInvoked" -> 4
      [] p = "ResponseValidated" -> 5
      [] p = "Encoded" -> 6

\* C29: a request moves through Initialized, SchemaResolved, RequestBuilt,
\* ProviderInvoked, ResponseValidated, Encoded forward only: every step
\* that changes the state goes to the next one, or, with an error
\* diagnostic at that boundary, further ahead; none returns to an earlier
\* state, and none leaves the six.
C29_ForwardOnly ==
    [][/\ Rank(pc') >= Rank(pc)
       /\ pc' # pc => \/ Rank(pc') = Rank(pc) + 1
                      \/ HasError(resp'.Diagnostics) /\ Rank(pc') > Rank(pc)
       /\ Rank(pc') \in 1..6]_vars

C29_Witness ==
    /\ pc = "Encoded"
    /\ trace = <<"Diagnostics.AddError", "State.RemoveResource", "Diagnostics.AddError">>
    /\ Len(calls) = 1
    /\ Cardinality(ErrorPositions) = 2

\* C30: every request is eventually answered: it reaches Encoded and its
\* wire response is sent, also when the resource type is not found and
\* when the provider's method returns with error diagnostics, which the
\* response then carries.
C30_EveryRequestAnswered ==
    /\ <>(pc = "Encoded" /\ response.Sent)
    /\ (pc = "ProviderInvoked" /\ HasError(resp.Diagnostics)) ~> (pc = "Encoded" /\ response.Sent /\ ErrorPositions # {})
    /\ (request.TypeName \notin DOMAIN GetResources) ~> (pc = "Encoded" /\ response.Sent /\ ErrorPositions # {})

C30_Witness ==
    /\ pc = "Encoded"
    /\ response.Sent
    /\ request.TypeName \notin DOMAIN GetResources
    /\ calls = <<>>
    /\ ErrorPositions = {1}

\* C31: a Create or Update in which the provider adds an error diagnostic
\* and whose last write of the response State is a Set answers with the
\* state the provider set as NewState and with the provider's diagnostics
\* only: no missing-state diagnostic is added.
C31_ErrorWithStateKeepsState ==
    ((Served("Create") \/ Served("Update")) /\ written.Op = "Set" /\ Called("Diagnostics.AddError"))
        => /\ response.NewState = NewDynamicValue(written.Value)
           /\ ~response.NewState.Value.IsNull
           /\ OnlyProviderDiagnostics
           /\ NoDiagnosticWith("Missing Resource State After Create")
           /\ NoDiagnosticWith("Missing Resource State After Update")

C31_Witness ==
    /\ Served("Create")
    /\ trace = <<"Config.Get", "Diagnostics.AddError", "State.Set">>
    /\ response.NewState = request.Config
    /\ Len(response.Diagnostics) = 1

\* The list s is the beginning of the list t.
Prefix(s, t) == Len(s) <= Len(t) /\ SubSeq(t, 1, Len(s)) = s

\* C32 as stated: the diagnostics list only grows at its end, and it does
\* not change once the provider's method has returned it to the
\* dispatcher.
C32_UnchangedAfterReadBack ==
    [][/\ Prefix(resp.Diagnostics, resp'.Diagnostics)
       /\ pc' \in {"ResponseValidated", "Encoded"} => resp'.Diagnostics = resp.Diagnostics]_vars

\* C32 as amended: the diagnostics list only grows at its end: every step
\* of the provider and of the dispatcher leaves the previous list as the
\* beginning of the new one. When the provider's method returns, the
\* dispatcher keeps what it read back and appends at most its own
\* missing-state diagnostic; after that validation the list does not
\* change, and it is encoded entry for entry.
C32_AppendOnly ==
    [][/\ Prefix(resp.Diagnostics, resp'.Diagnostics)
       /\ (pc = "ProviderInvoked" /\ pc' = "ResponseValidated")
              => /\ returned'.Diagnostics = resp.Diagnostics
                 /\ Len(resp'.Diagnostics) <= Len(resp.Diagnostics) + 1
                 /\ Len(resp'.Diagnostics) > Len(resp.Diagnostics)
                        => resp'.Diagnostics[Len(resp'.Diagnostics)] \in {MissingStateAfterCreate, MissingStateAfterUpdate}
       /\ pc \in {"ResponseValidated", "Encoded"}
              => /\ resp'.Diagnostics = resp.Diagnostics
                 /\ returned' = returned
       /\ pc' = "Encoded" => response'.Diagnostics = Diagnostics(resp.Diagnostics)]_vars

C32_Witness ==
    /\ Served("Create")
    /\ trace = <<"Diagnostics.AddWarning", "Plan.Get", "Diagnostics.AddWarning">>
    /\ Len(returned.Diagnostics) = 2
    /\ Len(resp.Diagnostics) = 3
    /\ Prefix(returned.Diagnostics, resp.Diagnostics)
    /\ response.Diagnostics[3].Summary = "Missing Resource State After Create"

\* C33: a response to a Create or an Update that holds no diagnostic of
\* error severity holds a NewState that is not null: a create or update
\* that reports success leaves the resource tracked.
C33_SuccessHasState ==
    ((Served("Create") \/ Served("Update")) /\ ErrorPositions = {})
        => /\ response.NewState.Present
           /\ ~response.NewState.Value.IsNull
           /\ ~resp.State.IsNull

C33_Witness ==
    /\ Served("Update")
    /\ trace = <<"State.RemoveResource", "Diagnostics.AddWarning", "State.Set">>
    /\ ErrorPositions = {}
    /\ Len(response.Diagnostics) = 1
    /\ ~response.NewState.Value.IsNull

\* The calls that read a container of the request.
GetCalls == {"Config.Get", "Plan.Get", "State.Get", "ProviderMeta.Get"}

\* The provider method made calls, and all of them were Get calls.
GetsOnly == trace # <<>> /\ \A i \in 1..Len(trace) : trace[i] \in GetCalls

\* C34: a Get on Config, Plan, prior State or ProviderMeta changes no
\* container of the request and not the response: the step leaves req and
\* resp as they were, and a request whose provider method makes Get calls
\* only is answered as the same request whose method makes no call at all.
C34_GetChangesNothing ==
    /\ []((Served(Method) /\ GetsOnly)
              => /\ response = ServedAlone(request, <<>>)
                 /\ req.Config = DecodeDynamicValue(request.Config)
                 /\ req.Plan = DecodeDynamicValue(request.PlannedState)
                 /\ req.State = DecodeDynamicValue(request.PriorState))
    /\ [][(trace' # trace /\ trace'[Len(trace')] \in GetCalls) => (req' = req /\ resp' = resp /\ written' = written)]_vars

C34_Witness ==
    /\ Served("Update")
    /\ trace = <<"Config.Get", "State.Get", "Plan.Get">>
    /\ data = Get(req.Plan)
    /\ response.NewState = request.PriorState
    /\ request.PriorState # request.Config
    /\ response.Diagnostics = <<>>

\* The response under construction holds a missing-state diagnostic.
MissingStateReported ==
    \E i \in 1..Len(resp.Diagnostics) : resp.Diagnostics[i] \in {MissingStateAfterCreate, MissingStateAfterUpdate}

\* C35: within one request the provider's lifecycle method is invoked at
\* most once, and only from RequestBuilt, when the resource type was found
\* and the typed request holds the decoded wire values; the provider's
\* calls happen inside that invocation; and the missing-state validation
\* acts only on what that invocation returned.
C35_InvokedOnceInOrder ==
    /\ [](/\ Len(calls) <= 1
          /\ calls # <<>> => /\ Rank(pc) >= 4
                             /\ request.TypeName \in DOMAIN GetResources
                             /\ req.Config = DecodeDynamicValue(request.Config)
                             /\ req.Plan = DecodeDynamicValue(request.PlannedState)
                             /\ req.State = DecodeDynamicValue(request.PriorState)
          /\ trace # <<>> => Len(calls) = 1
          /\ MissingStateReported => /\ Rank(pc) >= 5
                                      /\ Len(calls) = 1
                                      /\ ~HasError(returned.Diagnostics)
                                      /\ returned.State.IsNull)
    /\ [][/\ calls' # calls => (pc = "RequestBuilt" /\ calls = <<>> /\ pc' = "ProviderInvoked")
          /\ trace' # trace => (pc = "ProviderInvoked" /\ pc' = "ProviderInvoked")
          /\ returned' # returned => (pc = "ProviderInvoked" /\ Len(calls) = 1 /\ returned' = resp)]_vars

C35_Witness ==
    /\ pc = "ResponseValidated"
    /\ calls = <<"Update">>
    /\ trace = <<"State.Get", "State.RemoveResource">>
    /\ MissingStateReported
    /\ returned.Diagnostics = <<>>

====
